---- MODULE Spec2Model ----
(***************************************************************************)
(* Model of site/diffraction/diffraction.js: calculateDiffractionLimit,   *)
(* the solver that inverts the diffraction-limited MTF by bisection.       *)
(*                                                                         *)
(* Number representation.  JavaScript numbers are IEEE doubles; here every *)
(* quantity is a scaled integer, and every operation rounds to the nearest *)
(* representable value as the double operation does:                       *)
(*   fNumber          in tenths                  (80 is f/8, 56 is f/5.6)  *)
(*   contrastPercent  in 1/100000 of a percent   (10000000 is 100%)        *)
(*   wavelengthNm     in nanometres                                        *)
(*   frequencies      in 1/100000 cycle per mm                             *)
(*   u, low, high, MTF values, targetMtf, tolerance:  binary fixed point   *)
(*                    with 28 fractional bits (One is 1.0)                 *)
(* Products of two 28-bit quantities are formed from 14-bit halves so that *)
(* no intermediate value leaves the 32-bit integer range.  The recursive   *)
(* operators bind each step's values with a one-element set, so that a     *)
(* step is evaluated once.                                                 *)
(***************************************************************************)
EXTENDS Integers, Sequences, FiniteSets, TLC

VARIABLES args, pc, wavelengthNm, cutoffFrequency, targetMtf,
          low, high, u, iterations, ret, prev, calls

vars == <<args, pc, wavelengthNm, cutoffFrequency, targetMtf,
          low, high, u, iterations, ret, prev, calls>>

(***************************************************************************)
(* Bounds of the model.                                                    *)
(***************************************************************************)
MaxCalls == 2

FNumbers == {-10, 0, 56, 80}

Contrasts == {-100000, 0, 1, 1000000, 3000000, 5000000, 9999999, 10000000, 10100000}

Wavelengths == {-5, 0, 520, 550}

ArgLists == {<<f, c>> : f \in FNumbers, c \in Contrasts}
            \cup {<<f, c, w>> : f \in FNumbers, c \in Contrasts, w \in Wavelengths}

(***************************************************************************)
(* Scales.                                                                 *)
(***************************************************************************)
One == 2^28

Half == 2^14

FScale == 10^1

CScale == 10^5

FreqScale == 10^5

Abs(x) == IF x < 0 THEN -x ELSE x

(* Shift toward zero by a power of two. *)
Shr(v, d) == IF v >= 0 THEN v \div d ELSE -((-v) \div d)

(***************************************************************************)
(* Long division: (q*d + r) * base^n / d rounded to nearest, produced one  *)
(* digit at a time.                                                        *)
(***************************************************************************)
RECURSIVE LongDiv(_, _, _, _, _)
LongDiv(q, r, d, base, n) ==
    IF n = 0
    THEN IF 2 * r >= d THEN q + 1 ELSE q
    ELSE CHOOSE v \in {LongDiv(nq, nr, d, base, n - 1) :
                          nq \in {base * q + (base * r) \div d},
                          nr \in {(base * r) % d}} : TRUE

(* The exact product a*b as <<hi, lo>> with a*b = hi * One + lo. *)
Mul2(a, b) ==
    LET a1 == a \div Half
        a0 == a % Half
        b1 == b \div Half
        b0 == b % Half
        mid == a1 * b0 + a0 * b1
        t == (mid % Half) * Half + a0 * b0
    IN  <<a1 * b1 + mid \div Half + t \div One, t % One>>

(* a*b/One rounded to nearest. *)
MulQ(a, b) ==
    LET p == Mul2(a, b)
    IN  IF 2 * p[2] >= One THEN p[1] + 1 ELSE p[1]

LeqPair(p, q) == p[1] < q[1] \/ (p[1] = q[1] /\ p[2] <= q[2])

(* Math.sqrt of the exact product p (scale One*One), result at scale One. *)
RECURSIVE SqrtBits(_, _, _)
SqrtBits(p, y, bit) ==
    IF bit = 0
    THEN y
    ELSE CHOOSE v \in {SqrtBits(p, ny, nbit) :
                          ny \in {IF LeqPair(Mul2(y + bit, y + bit), p)
                                  THEN y + bit ELSE y},
                          nbit \in {bit \div 2}} : TRUE

(* atan(2^-i) at scale One, i = 0 .. 28. *)
AtanTable ==
    <<210828714, 124459457, 65760959, 33381290, 16755422, 8385879, 4193963,
      2097109, 1048571, 524287, 262144, 131072, 65536, 32768, 16384, 8192,
      4096, 2048, 1024, 512, 256, 128, 64, 32, 16, 8, 4, 2, 1>>

(* The angle of the vector (x, y), x > 0, by successive rotations. *)
RECURSIVE Rotate(_, _, _, _, _)
Rotate(x, y, z, i, d) ==
    IF i > Len(AtanTable) \/ y = 0
    THEN z
    ELSE CHOOSE v \in {Rotate(nx, ny, nz, i + 1, 2 * d) :
                          nx \in {IF y > 0 THEN x + Shr(y, d) ELSE x - Shr(y, d)},
                          ny \in {IF y > 0 THEN y - Shr(x, d) ELSE y + Shr(x, d)},
                          nz \in {IF y > 0 THEN z + AtanTable[i] ELSE z - AtanTable[i]}} : TRUE

(* 2 / Math.PI at scale One. *)
TwoOverPi == 170891319

(***************************************************************************)
(* const mtf = (u) => ...                                                  *)
(***************************************************************************)
mtf(x) ==
    IF x <= 0 THEN One
    ELSE IF x >= One THEN 0
    ELSE CHOOSE v \in {MulQ(TwoOverPi, d) :
                          d \in {Rotate(x, s, 0, 1, 1) - MulQ(x, s) :
                                    s \in {SqrtBits(Mul2(One - x, One + x), 0, One)}}} : TRUE

(***************************************************************************)
(* function calculateDiffractionLimit(fNumber, contrastPercent,            *)
(*                                    wavelengthNm = 520)                  *)
(***************************************************************************)
DefaultWavelengthNm == 520

(* The binding with another default value. *)
BindWavelengthOtherDefault(a) == IF Len(a) >= 3 THEN a[3] ELSE 550

(* Binding of the third parameter: the default applies when it is omitted. *)
BindWavelength(a) == IF Len(a) >= 3 THEN a[3] ELSE DefaultWavelengthNm

MsgFNumber == "f-number must be positive"

MsgContrast == "Contrast percentage must be between 0 and 100"

MsgWavelength == "Wavelength must be positive"

(* The checks with the contrast check moved ahead of the f-number check. *)
ValidateContrastFirst(f, c, w) ==
    IF c < 0 \/ c > 100 * CScale THEN MsgContrast
    ELSE IF f <= 0 THEN MsgFNumber
    ELSE IF w <= 0 THEN MsgWavelength
    ELSE ""

(* The three input checks, in source order; "" when none throws. *)
Validate(f, c, w) ==
    IF f <= 0 THEN MsgFNumber
    ELSE IF c < 0 \/ c > 100 * CScale THEN MsgContrast
    ELSE IF w <= 0 THEN MsgWavelength
    ELSE ""

(* 1 / (wavelengthNm * 1e-6 * fNumber), in 1/FreqScale cycles per mm. *)
CutoffFrequency(w, f) ==
    LET num == 1000000 * FScale
        d == w * f
    IN  LongDiv(num \div d, num % d, d, 10, 5)

(* contrastPercent / 100.0 at scale One. *)
TargetMtf(c) == LongDiv(c \div (100 * CScale), c % (100 * CScale), 100 * CScale, 2, 28)

(* The tolerance mistyped as 1e-2. *)
toleranceCoarse == LongDiv(0, 1, 100, 2, 28)

(* const tolerance = 1e-6, at scale One. *)
tolerance == LongDiv(0, 1, 1000000, 2, 28)

maxIterations == 100

(* The loop condition without the width test and with the cap off by one. *)
LoopCondCapOnly(lo, hi, it) == it <= maxIterations

(* while ((high - low) > tolerance && iterations < maxIterations) *)
LoopCond(lo, hi, it) == (hi - lo) > tolerance /\ it < maxIterations

(* The early exit without Math.abs. *)
EarlyExitSigned(currentMtf, target) == currentMtf - target < tolerance

(* Math.abs(currentMtf - targetMtf) < tolerance *)
EarlyExit(currentMtf, target) == Abs(currentMtf - target) < tolerance

(* The branch with the comparison reversed. *)
RaiseLowReversed(currentMtf, target) == currentMtf < target

(* if (currentMtf > targetMtf) low = u; else high = u; *)
RaiseLow(currentMtf, target) == currentMtf > target

(* Number(x.toFixed(1)) of a frequency: nearest tenth, ties upward. *)
ToFixed1(x) ==
    LET unit == FreqScale \div 10
    IN  ((x + unit \div 2) \div unit) * unit

(* Number(x.toFixed(6)) of a normalized frequency. *)
ToFixed6(x) ==
    LET n == MulQ(x, 1000000)
    IN  LongDiv(n \div 1000000, n % 1000000, 1000000, 2, 28)

(* return { spatialFrequency: 0, cutoffFrequency } *)
EdgeHigh(cutoff) == [spatialFrequency |-> 0, cutoffFrequency |-> cutoff]

(* return { spatialFrequency: cutoffFrequency, cutoffFrequency } *)
EdgeLow(cutoff) == [spatialFrequency |-> cutoff, cutoffFrequency |-> cutoff]

(* The record after the loop without its iteration count. *)
LoopResultNoIterations(x, cutoff, it) ==
    [spatialFrequency |-> ToFixed1(MulQ(x, cutoff)),
     cutoffFrequency |-> ToFixed1(cutoff),
     normalizedFrequency |-> ToFixed6(x)]

(* The record returned after the loop. *)
LoopResult(x, cutoff, it) ==
    [spatialFrequency |-> ToFixed1(MulQ(x, cutoff)),
     cutoffFrequency |-> ToFixed1(cutoff),
     normalizedFrequency |-> ToFixed6(x),
     iterations |-> it]

IsEdgeHighStrict(c) == c > 100 * CScale

IsEdgeHigh(c) == c >= 100 * CScale

IsEdgeLowStrict(c) == c < 0

IsEdgeLow(c) == c <= 0

NoRet == [kind |-> "none"]

Thrown(msg) == [kind |-> "throw", message |-> msg]

Returned(r) == [kind |-> "return", value |-> r]

(***************************************************************************)
(* State machine.  pc: "call" before the function body runs, "loop" at the *)
(* head of the while loop, "exit" after the loop and before the return,    *)
(* "done" when the call has returned or thrown.                            *)
(***************************************************************************)
Init ==
    /\ args \in ArgLists
    /\ pc = "call"
    /\ wavelengthNm = 0
    /\ cutoffFrequency = 0
    /\ targetMtf = 0
    /\ low = 0
    /\ high = 0
    /\ u = 0
    /\ iterations = 0
    /\ ret = NoRet
    /\ prev = <<>>
    /\ calls = 1

(* Parameter binding, validation, cutoff, edge cases, loop initialisation. *)
Enter ==
    /\ pc = "call"
    /\ LET f == args[1]
           c == args[2]
           w == BindWavelength(args)
           msg == Validate(f, c, w)
       IN  /\ wavelengthNm' = w
           /\ IF msg # ""
              THEN /\ ret' = Thrown(msg)
                   /\ pc' = "done"
                   /\ UNCHANGED <<cutoffFrequency, targetMtf, low, high, u, iterations>>
              ELSE /\ cutoffFrequency' = CutoffFrequency(w, f)
                   /\ IF IsEdgeHigh(c)
                      THEN /\ ret' = Returned(EdgeHigh(cutoffFrequency'))
                           /\ pc' = "done"
                           /\ UNCHANGED <<targetMtf, low, high, u, iterations>>
                      ELSE IF IsEdgeLow(c)
                      THEN /\ ret' = Returned(EdgeLow(cutoffFrequency'))
                           /\ pc' = "done"
                           /\ UNCHANGED <<targetMtf, low, high, u, iterations>>
                      ELSE /\ targetMtf' = TargetMtf(c)
                           /\ low' = 0
                           /\ high' = One
                           /\ u' = One \div 2
                           /\ iterations' = 0
                           /\ ret' = NoRet
                           /\ pc' = "loop"
    /\ UNCHANGED <<args, prev, calls>>

(* One pass through the loop body. *)
Iterate ==
    /\ pc = "loop"
    /\ LoopCond(low, high, iterations)
    /\ u' = (low + high) \div 2
    /\ \E currentMtf \in {mtf(u')} :
           IF EarlyExit(currentMtf, targetMtf)
           THEN /\ pc' = "exit"
                /\ UNCHANGED <<low, high, iterations>>
           ELSE /\ IF RaiseLow(currentMtf, targetMtf)
                   THEN low' = u' /\ high' = high
                   ELSE high' = u' /\ low' = low
                /\ iterations' = iterations + 1
                /\ pc' = "loop"
    /\ UNCHANGED <<args, wavelengthNm, cutoffFrequency, targetMtf, ret, prev, calls>>

(* The loop condition is false. *)
LoopEnd ==
    /\ pc = "loop"
    /\ ~LoopCond(low, high, iterations)
    /\ pc' = "exit"
    /\ UNCHANGED <<args, wavelengthNm, cutoffFrequency, targetMtf,
                   low, high, u, iterations, ret, prev, calls>>

(* Scaling, rounding and return. *)
Return ==
    /\ pc = "exit"
    /\ ret' = Returned(LoopResult(u, cutoffFrequency, iterations))
    /\ pc' = "done"
    /\ UNCHANGED <<args, wavelengthNm, cutoffFrequency, targetMtf,
                   low, high, u, iterations, prev, calls>>

(* A caller invokes the function again with the same f-number and either   *)
(* another contrast or another wavelength argument.                        *)
NextCall ==
    /\ pc = "done"
    /\ calls < MaxCalls
    /\ \E a \in ArgLists :
          /\ a[1] = args[1]
          /\ \/ a[2] = args[2]
             \/ Len(a) = Len(args) /\ (Len(a) = 3 => a[3] = args[3])
          /\ args' = a
    /\ prev' = <<[args |-> args, ret |-> ret]>>
    /\ calls' = calls + 1
    /\ pc' = "call"
    /\ wavelengthNm' = 0
    /\ cutoffFrequency' = 0
    /\ targetMtf' = 0
    /\ low' = 0
    /\ high' = 0
    /\ u' = 0
    /\ iterations' = 0
    /\ ret' = NoRet

Next == Enter \/ Iterate \/ LoopEnd \/ Return \/ NextCall

Spec == Init /\ [][Next]_vars

FairSpec == Spec /\ WF_vars(Next)

TypeOK ==
    /\ pc \in {"call", "loop", "exit", "done"}
    /\ calls \in 1..MaxCalls
    /\ low \in 0..One
    /\ high \in 0..One
    /\ iterations \in 0..maxIterations

(***************************************************************************)
(* Properties.                                                             *)
(***************************************************************************)
ArgF == args[1]

ArgC == args[2]

ArgW == IF Len(args) = 3 THEN args[3] ELSE 520

Hundred == 100 * CScale

InputsValid == ArgF > 0 /\ ArgC >= 0 /\ ArgC <= Hundred /\ ArgW > 0

Interior == ArgC > 0 /\ ArgC < Hundred

Done == pc = "done"

DoneOk == pc = "done" /\ ret.kind = "return"

(* C1: the call throws exactly when fNumber <= 0, or contrastPercent < 0   *)
(* or > 100, or wavelengthNm <= 0, and then returns no result; the error   *)
(* is that of the first failing check in the order f-number, contrast,     *)
(* wavelength.                                                             *)
C1_ValidationOrder ==
    Done =>
        IF ArgF <= 0 THEN ret = [kind |-> "throw", message |-> "f-number must be positive"]
        ELSE IF ArgC < 0 \/ ArgC > Hundred
             THEN ret = [kind |-> "throw",
                         message |-> "Contrast percentage must be between 0 and 100"]
        ELSE IF ArgW <= 0
             THEN ret = [kind |-> "throw", message |-> "Wavelength must be positive"]
        ELSE ret.kind = "return"

C1_Witness ==
    /\ Done
    /\ ArgF = 0
    /\ ArgC > Hundred
    /\ ret = [kind |-> "throw", message |-> "f-number must be positive"]

(* C2: for all valid inputs, the boundary contrasts 0 and 100 included,    *)
(* the returned cutoffFrequency is 1 / (wavelengthNm * 1e-6 * fNumber)     *)
(* rounded to one decimal place.                                           *)
C2_CutoffRounded ==
    DoneOk => ret.value.cutoffFrequency = ToFixed1(CutoffFrequency(ArgW, ArgF))

PrevOk == prev # <<>> /\ prev[1].ret.kind = "return"

PrevF == prev[1].args[1]

PrevC == prev[1].args[2]

PrevW == IF Len(prev[1].args) = 3 THEN prev[1].args[3] ELSE 520

(* C3: for fixed valid fNumber and wavelengthNm and contrasts c1 <= c2 in  *)
(* [0, 100], boundaries included, spatialFrequency(c2) <= spatialFrequency *)
(* (c1).                                                                   *)
C3_Monotone ==
    (DoneOk /\ PrevOk /\ PrevF = ArgF /\ PrevW = ArgW) =>
        /\ PrevC <= ArgC =>
              ret.value.spatialFrequency <= prev[1].ret.value.spatialFrequency
        /\ ArgC <= PrevC =>
              prev[1].ret.value.spatialFrequency <= ret.value.spatialFrequency

(* 1e-3 at scale One. *)
LooseTolerance == LongDiv(0, 1, 1000, 2, 28)

(* C4: for valid input with contrastPercent strictly between 0 and 100 the *)
(* returned normalizedFrequency u satisfies |MTF(u) - contrastPercent/100| *)
(* < 1e-3.                                                                 *)
C4_Convergence ==
    (DoneOk /\ Interior) =>
        Abs(mtf(ret.value.normalizedFrequency)
            - LongDiv(ArgC \div Hundred, ArgC % Hundred, Hundred, 2, 28)) < LooseTolerance

C4_Witness ==
    /\ DoneOk
    /\ Interior
    /\ ret.value.iterations >= 10
    /\ ret.value.normalizedFrequency > 0
    /\ ret.value.normalizedFrequency < One

(* C5: once validation passes the call terminates with a result record,    *)
(* never an error; the loop is left because the interval width is at most  *)
(* 1e-6, or because |MTF(u) - targetMtf| < 1e-6, or because of the cap, and *)
(* the iteration count never exceeds 100.                                  *)
C5_Terminates ==
    /\ (pc = "call" /\ InputsValid) ~> (DoneOk /\ iterations <= 100)
    /\ [](iterations <= 100)
    /\ [](pc = "exit" => \/ high - low <= tolerance
                         \/ Abs(mtf(u) - targetMtf) < tolerance
                         \/ iterations >= 100)

C5_Witness ==
    /\ DoneOk
    /\ Interior
    /\ ret.value.iterations = 20
    /\ high - low <= tolerance

(* C6: with contrastPercent = 100 and valid fNumber and wavelengthNm the   *)
(* call returns spatialFrequency 0 and the bisection loop is not entered.  *)
C6_BoundaryHigh ==
    (InputsValid /\ ArgC = Hundred) =>
        /\ pc \notin {"loop", "exit"}
        /\ Done => (ret.kind = "return" /\ ret.value.spatialFrequency = 0)

C6_Witness ==
    /\ DoneOk
    /\ ArgC = Hundred
    /\ ret.value.spatialFrequency = 0
    /\ ret.value.cutoffFrequency > 0

(* C7: with contrastPercent = 0 and valid fNumber and wavelengthNm the     *)
(* returned spatialFrequency equals the cutoffFrequency of the same record *)
(* and the bisection loop is not entered.                                  *)
C7_BoundaryLow ==
    (InputsValid /\ ArgC = 0) =>
        /\ pc \notin {"loop", "exit"}
        /\ Done => (ret.kind = "return"
                    /\ ret.value.spatialFrequency = ret.value.cutoffFrequency)

C7_Witness ==
    /\ DoneOk
    /\ ArgC = 0
    /\ ret.value.spatialFrequency = ret.value.cutoffFrequency
    /\ ret.value.cutoffFrequency > 0

(* C8: in every returned record normalizedFrequency and iterations are     *)
(* present exactly when contrastPercent is strictly between 0 and 100; at  *)
(* 0 and at 100 the record has only spatialFrequency and cutoffFrequency.  *)
C8_ResultShape ==
    DoneOk =>
        /\ ("normalizedFrequency" \in DOMAIN ret.value) <=> Interior
        /\ ("iterations" \in DOMAIN ret.value) <=> Interior
        /\ ~Interior => DOMAIN ret.value = {"spatialFrequency", "cutoffFrequency"}

C8_Witness ==
    /\ DoneOk
    /\ PrevOk
    /\ Interior
    /\ DOMAIN ret.value = {"spatialFrequency", "cutoffFrequency",
                           "normalizedFrequency", "iterations"}
    /\ DOMAIN prev[1].ret.value = {"spatialFrequency", "cutoffFrequency"}

(* C9: a call with the wavelength argument omitted has the same outcome,   *)
(* result record or error, as the call with wavelengthNm = 520.            *)
C9_DefaultWavelength ==
    (/\ Done
     /\ prev # <<>>
     /\ PrevF = ArgF
     /\ PrevC = ArgC
     /\ \/ Len(args) = 2 /\ prev[1].args = <<ArgF, ArgC, 520>>
        \/ Len(prev[1].args) = 2 /\ args = <<ArgF, ArgC, 520>>)
    => ret = prev[1].ret

C9_Witness ==
    /\ DoneOk
    /\ PrevOk
    /\ Interior
    /\ Len(args) = 2
    /\ prev[1].args = <<ArgF, ArgC, 520>>
    /\ ret = prev[1].ret

(* C10: at every loop head 0 <= low < high <= 1 and MTF(low) > targetMtf   *)
(* >= MTF(high); each pass that does not exit halves high - low; the u     *)
(* used for the result lies in [low, high] of the state in which it was    *)
(* computed.                                                               *)
C10_Bracketing ==
    /\ [](pc = "loop" =>
            /\ 0 <= low
            /\ low < high
            /\ high <= One
            /\ mtf(low) > targetMtf
            /\ targetMtf >= mtf(high))
    /\ [](pc = "exit" => (low <= u /\ u <= high))
    /\ [][(pc = "loop" /\ pc' = "loop") => 2 * (high' - low') = high - low]_vars
    /\ [][pc = "loop" => (low <= u' /\ u' <= high)]_vars

C10_Witness ==
    /\ pc = "loop"
    /\ iterations >= 3
    /\ low > 0
    /\ high < One
    /\ mtf(low) > targetMtf
    /\ targetMtf >= mtf(high)

====
